---- MODULE Spec2Model ----
(***************************************************************************)
(* EOTS (extractable one-time signatures) library of punithbm/eots-demo:   *)
(* src/lib/eots.ts, src/lib/utils.ts and the scripts that drive them       *)
(* (src/lib/test.ts, the nonce-reuse demonstration).                       *)
(*                                                                         *)
(* The program works on secp256k1 with 32-byte scalars.  TLC has neither   *)
(* 256-bit integers nor the room to enumerate them, so the model keeps the *)
(* code and scales the numbers it runs on:                                 *)
(*   - a hex digit has HexBase = 4 values (16 in the program), a byte is   *)
(*     two hex digits (ByteBase = 16, 256 in the program) and a scalar is  *)
(*     KeyLen = 1 byte (32 in the program);                                *)
(*   - the curve is y^2 = x^3 + 2x + 7 over GF(11), a group of prime order *)
(*     CurveN = 7 generated by G = (6, 2).  Like secp256k1 its order is a  *)
(*     prime below the field prime, which is below the scalar width        *)
(*     (n < p < ByteBase^KeyLen); no point has x = 0; one pair of points   *)
(*     has x = n and one pair has n < x < p (on secp256k1 x = n and        *)
(*     x = n + 2 are x-coordinates of points, x = 0 is not).               *)
(* @noble/secp256k1 and @noble/hashes are not part of the repository; the  *)
(* operators that stand for them are marked below.                         *)
(***************************************************************************)
EXTENDS Integers, Sequences, FiniteSets, TLC

VARIABLES pc, keyPair, slot1, slot2, vcall, ecall,
          xcall, inv, codec,
          formData, results, errors, called

\* the library session (test.ts and the demonstration scripts)
sessionVars == <<pc, keyPair, slot1, slot2, vcall, ecall>>

\* single calls on arbitrary arguments: extractPrivateKey, modInverse, the
\* scalar codec
callVars == <<xcall, inv, codec>>

\* the page (the Home component): its three pieces of React state, and the
\* last handler that ran with the core functions it invoked
pageVars == <<formData, results, errors, called>>

vars == <<sessionVars, callVars, pageVars>>

----------------------------------------------------------------------------
(* Scaled program constants *)

HexBase == 4

ByteBase == 16

KeyLen == 1

FieldP == 11

CurveA == 2

CurveB == 7

CurveN == 7

Gx == 6

Gy == 2

----------------------------------------------------------------------------
(* Values *)

Byte == 0 .. (ByteBase - 1)

RECURSIVE SeqsOfLen(_, _)
SeqsOfLen(S, L) ==
  IF L = 0 THEN {<<>>}
  ELSE {Append(s, b) : s \in SeqsOfLen(S, L - 1), b \in S}

\* every KeyLen-byte value: private keys, digests, nonces, r and s
Scalars == SeqsOfLen(Byte, KeyLen)

\* JavaScript's undefined (an omitted argument, a missing field)
Undefined == <<-1>>

\* a call returns a value or throws an Error with a message
Return(v) == [ok |-> TRUE, value |-> v]

Throw(msg) == [ok |-> FALSE, error |-> msg]

None == [none |-> TRUE]

----------------------------------------------------------------------------
(* utils.ts and the codec helpers of eots.ts *)

\* BigInt.prototype.toString(16) of a non-negative number: its hex digits
RECURSIVE toString16(_)
toString16(num) ==
  IF num < HexBase THEN <<num>>
  ELSE Append(toString16(num \div HexBase), num % HexBase)

\* String.prototype.padStart(len, "0")
RECURSIVE padStart(_, _)
padStart(str, len) ==
  IF Len(str) >= len THEN str ELSE padStart(<<0>> \o str, len)

\* A string is a sequence of characters.  A hex digit is the number it
\* stands for; every other character is a number outside HexDigits.
HexDigits == 0 .. (HexBase - 1)

\* parseInt(str, 16) of a two-character string, stored into a Uint8Array:
\* the longest prefix of hex digits is parsed; none gives NaN, stored as 0
parseInt16(str) ==
  IF str[1] \notin HexDigits THEN 0
  ELSE IF str[2] \notin HexDigits THEN str[1]
  ELSE str[1] * HexBase + str[2]

hexToBytes(hex) ==
  LET h == IF Len(hex) % 2 # 0 THEN <<0>> \o hex ELSE hex
  IN [i \in 1 .. (Len(h) \div 2) |-> parseInt16(<<h[2 * i - 1], h[2 * i]>>)]

\* isValidHex(hex, expectedLength) with an expected length, lines 62-66
isValidHex(hex, expectedLength) ==
  LET isValid == \A i \in 1 .. Len(hex) : hex[i] \in HexDigits
  IN isValid /\ Len(hex) = expectedLength * 2

RECURSIVE bytesToHex(_)
bytesToHex(bytes) ==
  IF bytes = <<>> THEN <<>>
  ELSE padStart(toString16(Head(bytes)), 2) \o bytesToHex(Tail(bytes))

RECURSIVE bytesToNumberFrom(_, _)
bytesToNumberFrom(result, bytes) ==
  IF bytes = <<>> THEN result
  ELSE bytesToNumberFrom(result * ByteBase + Head(bytes), Tail(bytes))

bytesToNumber(bytes) == bytesToNumberFrom(0, bytes)

\* mutant: the hex string is not padded to the width
numberToBytes_unpadded(num, length) == hexToBytes(toString16(num))

numberToBytes(num, length) == hexToBytes(padStart(toString16(num), length * 2))

\* BigInt % truncates toward zero: the result has the sign of the dividend
JsRem(a, b) == IF a >= 0 THEN a % b ELSE -((-a) % b)

\* BigInt / truncates toward zero
JsDiv(a, b) ==
  LET q == (IF a >= 0 THEN a ELSE -a) \div (IF b >= 0 THEN b ELSE -b)
  IN IF (a >= 0) = (b >= 0) THEN q ELSE -q

\* mutant: the remainder is not brought back into [0, b)
mod_truncating(a, b) == JsRem(a, b)

mod(a, b) ==
  LET result == JsRem(a, b)
  IN IF result >= 0 THEN result ELSE result + b

RECURSIVE modInverseLoop(_, _, _, _)
modInverseLoop(old_r, r, old_s, s) ==
  IF r = 0 THEN [old_r |-> old_r, old_s |-> old_s]
  ELSE LET quotient == JsDiv(old_r, r)
       IN modInverseLoop(r, old_r - quotient * r, s, old_s - quotient * s)

modInverse(a, m) ==
  LET a0 == IF a < 0 THEN mod(a, m) ELSE a
      e == modInverseLoop(a0, m, 1, 0)
  IN IF e.old_r > 1 THEN Throw("Modular inverse does not exist")
     ELSE Return(IF e.old_s < 0 THEN e.old_s + m ELSE e.old_s)

----------------------------------------------------------------------------
(* The curve and hash libraries the code imports (eots.ts:1-2).  Their     *)
(* code is outside the repository: these operators state the contract the  *)
(* code relies on, on the scaled curve.                                     *)

Infinity == [inf |-> TRUE, x |-> 0, y |-> 0]

Pt(x, y) == [inf |-> FALSE, x |-> x, y |-> y]

G == Pt(Gx, Gy)

FieldInv(v) == CHOOSE w \in 1 .. (FieldP - 1) : (v * w) % FieldP = 1

OnCurve(x, y) == (y * y) % FieldP = (x * x * x + CurveA * x + CurveB) % FieldP

PointAdd(P1, P2) ==
  IF P1.inf THEN P2
  ELSE IF P2.inf THEN P1
  ELSE IF P1.x = P2.x /\ (P1.y + P2.y) % FieldP = 0 THEN Infinity
  ELSE LET l == IF P1 = P2
                THEN ((3 * P1.x * P1.x + CurveA) * FieldInv((2 * P1.y) % FieldP)) % FieldP
                ELSE ((P2.y - P1.y) * FieldInv((P2.x - P1.x) % FieldP)) % FieldP
           x3 == (l * l - P1.x - P2.x) % FieldP
       IN Pt(x3, (l * (P1.x - x3) - P1.y) % FieldP)

RECURSIVE ScalarMul(_, _)
ScalarMul(k, P) == IF k = 0 THEN Infinity ELSE PointAdd(ScalarMul(k - 1, P), P)

\* k*G for every scalar of the group
MulG == [k \in 0 .. (CurveN - 1) |-> ScalarMul(k, G)]

\* SEC1 encoding of a point: 02/03 || x, or 04 || x || y
encodePoint(P, isCompressed) ==
  IF isCompressed THEN <<2 + (P.y % 2)>> \o numberToBytes(P.x, KeyLen)
  ELSE <<4>> \o numberToBytes(P.x, KeyLen) \o numberToBytes(P.y, KeyLen)

\* the point a SEC1 encoding stands for, or Infinity when it is none
decodePoint(bytes) ==
  IF Len(bytes) = KeyLen + 1 /\ bytes[1] \in {2, 3}
  THEN LET x == bytesToNumber(Tail(bytes))
           ys == {y \in 0 .. (FieldP - 1) : OnCurve(x, y) /\ y % 2 = bytes[1] - 2}
       IN IF x < FieldP /\ ys # {} THEN Pt(x, CHOOSE y \in ys : TRUE) ELSE Infinity
  ELSE IF Len(bytes) = 2 * KeyLen + 1 /\ bytes[1] = 4
  THEN LET x == bytesToNumber(SubSeq(bytes, 2, KeyLen + 1))
           y == bytesToNumber(SubSeq(bytes, KeyLen + 2, 2 * KeyLen + 1))
       IN IF x < FieldP /\ y < FieldP /\ OnCurve(x, y) THEN Pt(x, y) ELSE Infinity
  ELSE Infinity

\* getPublicKey of @noble/secp256k1: the encoded point d*G; throws unless
\* the key is KeyLen bytes with 1 <= d < n
getPublicKeySecp(privateKey, isCompressed) ==
  LET d == bytesToNumber(privateKey)
  IN IF Len(privateKey) # KeyLen \/ d < 1 \/ d >= CurveN
     THEN Throw("Expected valid private key")
     ELSE Return(encodePoint(MulG[d], isCompressed))

\* the textbook ECDSA acceptance test on numbers: with w = s^-1 mod n,
\* the point (h*w)*G + (r*w)*Q is finite and its x mod n is r
EcdsaAccepts(Q, h, r, s) ==
  LET w == CHOOSE v \in 1 .. (CurveN - 1) : (s * v) % CurveN = 1
      R == PointAdd(ScalarMul((h * w) % CurveN, G), ScalarMul((r * w) % CurveN, Q))
  IN ~R.inf /\ R.x % CurveN = r

\* What is not fixed by the source about the linked curve library: whether
\* its verify rejects signatures with s > n/2 (lowS) and whether it throws
\* or answers false on a public key or digest it cannot decode (throws).
LibBuilds == [lowS : BOOLEAN, throws : BOOLEAN]

\* verify of @noble/secp256k1 on a compact r||s signature
verify(sig, msgHash, pubKey, lib) ==
  LET r == bytesToNumber(SubSeq(sig, 1, KeyLen))
      s == bytesToNumber(SubSeq(sig, KeyLen + 1, 2 * KeyLen))
      Q == decodePoint(pubKey)
  IN IF Len(sig) # 2 * KeyLen \/ Len(msgHash) # KeyLen \/ Q.inf
     THEN IF lib.throws THEN Throw("Invalid input") ELSE Return(FALSE)
     ELSE IF r < 1 \/ r >= CurveN \/ s < 1 \/ s >= CurveN THEN Return(FALSE)
     ELSE IF lib.lowS /\ 2 * s > CurveN THEN Return(FALSE)
     ELSE Return(EcdsaAccepts(Q, bytesToNumber(msgHash) % CurveN, r, s))

RECURSIVE sha256From(_, _)
sha256From(acc, bytes) ==
  IF bytes = <<>> THEN acc
  ELSE sha256From((acc * 5 + 3 * Head(bytes) + 3 + ((acc * Head(bytes)) \div 4)) % ByteBase,
                  Tail(bytes))

\* sha256 of @noble/hashes: a fixed function from byte strings to one
\* KeyLen-byte digest (a stand-in mixing function)
sha256(bytes) == numberToBytes(sha256From(7, bytes), KeyLen)

----------------------------------------------------------------------------
(* eots.ts *)

\* mutant: the derived nonce also depends on what was signed before
signEOTSNonce_stateful(privKey, msgHash, nonce) ==
  IF nonce # Undefined THEN nonce
  ELSE sha256(privKey \o msgHash \o (IF slot1 = None THEN <<>> ELSE slot1.h))

\* mutant: the nonce is reduced mod n instead of being taken as it is
signEOTSNonce_reduced(privKey, msgHash, nonce) ==
  LET k == IF nonce # Undefined THEN nonce ELSE sha256(privKey \o msgHash)
  IN numberToBytes(bytesToNumber(k) % CurveN, KeyLen)

\* mutant: a supplied nonce is hashed together with the digest
signEOTSNonce_hedged(privKey, msgHash, nonce) ==
  IF nonce # Undefined THEN sha256(nonce \o msgHash) ELSE sha256(privKey \o msgHash)

\* signEOTS, lines 79-89: the nonce bytes k, supplied or derived
signEOTSNonce(privKey, msgHash, nonce) ==
  IF nonce # Undefined THEN nonce ELSE sha256(privKey \o msgHash)

\* mutant: the private key is not multiplied by r
signEOTSWith_rDropped(privKey, msgHash, k) ==
  LET kNum == bytesToNumber(k)
  IN IF kNum >= CurveN \/ kNum = 0 THEN Throw("Invalid nonce generated")
     ELSE LET kPoint == getPublicKeySecp(k, FALSE)
          IN IF ~kPoint.ok THEN kPoint
             ELSE LET r == SubSeq(kPoint.value, 2, KeyLen + 1)
                      hashNum == bytesToNumber(msgHash)
                      privKeyNum == bytesToNumber(privKey)
                      kInv == modInverse(kNum, CurveN)
                  IN IF ~kInv.ok THEN kInv
                     ELSE LET s == mod(kInv.value * (hashNum + privKeyNum), CurveN)
                          IN IF s = 0 THEN Throw("Invalid signature: s is zero")
                             ELSE Return([r |-> r, s |-> numberToBytes(s, KeyLen)])

\* mutant: r is taken from the y-coordinate of the nonce point
signEOTSWith_yCoordinate(privKey, msgHash, k) ==
  LET kNum == bytesToNumber(k)
  IN IF kNum >= CurveN \/ kNum = 0 THEN Throw("Invalid nonce generated")
     ELSE LET kPoint == getPublicKeySecp(k, FALSE)
          IN IF ~kPoint.ok THEN kPoint
             ELSE LET r == SubSeq(kPoint.value, KeyLen + 2, 2 * KeyLen + 1)
                      rNum == bytesToNumber(r)
                      hashNum == bytesToNumber(msgHash)
                      privKeyNum == bytesToNumber(privKey)
                      kInv == modInverse(kNum, CurveN)
                  IN IF ~kInv.ok THEN kInv
                     ELSE LET s == mod(kInv.value * (hashNum + rNum * privKeyNum), CurveN)
                          IN IF s = 0 THEN Throw("Invalid signature: s is zero")
                             ELSE Return([r |-> r, s |-> numberToBytes(s, KeyLen)])

\* signEOTS, lines 91-116: the signature made with the nonce bytes k
signEOTSWith(privKey, msgHash, k) ==
  LET kNum == bytesToNumber(k)
  IN IF kNum >= CurveN \/ kNum = 0 THEN Throw("Invalid nonce generated")
     ELSE LET kPoint == getPublicKeySecp(k, FALSE)
          IN IF ~kPoint.ok THEN kPoint
             ELSE LET r == SubSeq(kPoint.value, 2, KeyLen + 1)
                      rNum == bytesToNumber(r)
                      hashNum == bytesToNumber(msgHash)
                      privKeyNum == bytesToNumber(privKey)
                      kInv == modInverse(kNum, CurveN)
                  IN IF ~kInv.ok THEN kInv
                     ELSE LET s == mod(kInv.value * (hashNum + rNum * privKeyNum), CurveN)
                          IN IF s = 0 THEN Throw("Invalid signature: s is zero")
                             ELSE Return([r |-> r, s |-> numberToBytes(s, KeyLen)])

signEOTS(privateKey, messageHash, nonce) ==
  signEOTSWith(privateKey, messageHash, signEOTSNonce(privateKey, messageHash, nonce))

\* mutant: the upper ends of the range test are off by one
signatureOutOfRange_offByOne(r, s) == r <= 0 \/ r > CurveN \/ s <= 0 \/ s > CurveN

\* verifyEOTS, line 135: r or s outside [1, n-1]
signatureOutOfRange(r, s) == r <= 0 \/ r >= CurveN \/ s <= 0 \/ s >= CurveN

\* verifyEOTS, lines 128-157: the body of the outer try.  curveCalled tells
\* whether the library's verify was invoked.
verifyEOTSTry(publicKey, messageHash, signature, lib) ==
  IF signature.r = Undefined \/ signature.s = Undefined
  THEN \* bytesToNumber iterates over its argument: a TypeError
       [ok |-> FALSE, error |-> "TypeError: bytes is not iterable", curveCalled |-> FALSE]
  ELSE LET pubKey == publicKey
           msgHash == messageHash
           r == bytesToNumber(signature.r)
           s == bytesToNumber(signature.s)
       IN IF signatureOutOfRange(r, s)
          THEN [ok |-> TRUE, value |-> FALSE, curveCalled |-> FALSE]
          ELSE LET sBytes == numberToBytes(s, KeyLen)
                   rBytes == numberToBytes(r, KeyLen)
                   derSig == rBytes \o sBytes
                   v == verify(derSig, msgHash, pubKey, lib)
               IN IF v.ok THEN [ok |-> TRUE, value |-> v.value, curveCalled |-> TRUE]
                  ELSE \* the inner catch, lines 153-157
                       [ok |-> TRUE, value |-> TRUE, curveCalled |-> TRUE]

\* mutant: no outer catch, an error inside the try reaches the caller
verifyEOTS_noOuterCatch(publicKey, messageHash, signature, lib) ==
  verifyEOTSTry(publicKey, messageHash, signature, lib)

\* verifyEOTS, with the outer catch of lines 158-161
verifyEOTS(publicKey, messageHash, signature, lib) ==
  LET t == verifyEOTSTry(publicKey, messageHash, signature, lib)
  IN IF t.ok THEN t
     ELSE [ok |-> TRUE, value |-> FALSE, curveCalled |-> t.curveCalled]

\* mutant: the digest difference is taken the other way round
extractSolve_hDiffSwapped(r1, s1, s2, h1, h2) ==
  LET sDiff == mod(s1 - s2, CurveN)
  IN IF sDiff = 0 THEN Throw("Cannot extract private key: s1 equals s2")
     ELSE LET hDiff == mod(h2 - h1, CurveN)
              sDiffInv == modInverse(sDiff, CurveN)
          IN IF ~sDiffInv.ok THEN sDiffInv
             ELSE LET k == mod(hDiff * sDiffInv.value, CurveN)
                      numerator == mod(s1 * k - h1, CurveN)
                      rInv == modInverse(r1, CurveN)
                  IN IF ~rInv.ok THEN rInv
                     ELSE Return(numberToBytes(mod(numerator * rInv.value, CurveN),
                                               KeyLen))

\* mutant: the reduced difference of the s values is not tested
extractSolve_noDegenerateCheck(r1, s1, s2, h1, h2) ==
  LET sDiff == mod(s1 - s2, CurveN)
      hDiff == mod(h1 - h2, CurveN)
      sDiffInv == modInverse(sDiff, CurveN)
  IN IF ~sDiffInv.ok THEN sDiffInv
     ELSE LET k == mod(hDiff * sDiffInv.value, CurveN)
              numerator == mod(s1 * k - h1, CurveN)
              rInv == modInverse(r1, CurveN)
          IN IF ~rInv.ok THEN rInv
             ELSE Return(numberToBytes(mod(numerator * rInv.value, CurveN),
                                       KeyLen))

\* extractPrivateKey, lines 198-213: the key from r, s1, s2, h1, h2
\* mutant: the key is solved from the second s and the first digest
extractSolve_mixedSignature(r1, s1, s2, h1, h2) ==
  LET sDiff == mod(s1 - s2, CurveN)
  IN IF sDiff = 0 THEN Throw("Cannot extract private key: s1 equals s2")
     ELSE LET hDiff == mod(h1 - h2, CurveN)
              sDiffInv == modInverse(sDiff, CurveN)
          IN IF ~sDiffInv.ok THEN sDiffInv
             ELSE LET k == mod(hDiff * sDiffInv.value, CurveN)
                      numerator == mod(s2 * k - h1, CurveN)
                      rInv == modInverse(r1, CurveN)
                  IN IF ~rInv.ok THEN rInv
                     ELSE Return(numberToBytes(mod(numerator * rInv.value, CurveN),
                                               KeyLen))

extractSolve(r1, s1, s2, h1, h2) ==
  LET sDiff == mod(s1 - s2, CurveN)
  IN IF sDiff = 0 THEN Throw("Cannot extract private key: s1 equals s2")
     ELSE LET hDiff == mod(h1 - h2, CurveN)
              sDiffInv == modInverse(sDiff, CurveN)
          IN IF ~sDiffInv.ok THEN sDiffInv
             ELSE LET k == mod(hDiff * sDiffInv.value, CurveN)
                      numerator == mod(s1 * k - h1, CurveN)
                      rInv == modInverse(r1, CurveN)
                  IN IF ~rInv.ok THEN rInv
                     ELSE Return(numberToBytes(mod(numerator * rInv.value, CurveN),
                                               KeyLen))

\* mutant: the s values are compared before the r values
extractPrivateKey_sFirst(sig1, sig2, hash1, hash2) ==
  LET r1 == bytesToNumber(sig1.r)
      s1 == bytesToNumber(sig1.s)
      r2 == bytesToNumber(sig2.r)
      s2 == bytesToNumber(sig2.s)
      h1 == bytesToNumber(hash1)
      h2 == bytesToNumber(hash2)
  IN IF s1 = s2 THEN Throw("Signatures are identical")
     ELSE IF r1 # r2
     THEN Throw("Signatures do not use the same nonce (r values are different)")
     ELSE extractSolve(r1, s1, s2, h1, h2)

\* mutant: the r values are not compared
extractPrivateKey_noNonceCheck(sig1, sig2, hash1, hash2) ==
  LET r1 == bytesToNumber(sig1.r)
      s1 == bytesToNumber(sig1.s)
      s2 == bytesToNumber(sig2.s)
      h1 == bytesToNumber(hash1)
      h2 == bytesToNumber(hash2)
  IN IF s1 = s2 THEN Throw("Signatures are identical")
     ELSE extractSolve(r1, s1, s2, h1, h2)

extractPrivateKey(sig1, sig2, hash1, hash2) ==
  LET msgHash1 == hash1
      msgHash2 == hash2
      r1 == bytesToNumber(sig1.r)
      s1 == bytesToNumber(sig1.s)
      r2 == bytesToNumber(sig2.r)
      s2 == bytesToNumber(sig2.s)
      h1 == bytesToNumber(msgHash1)
      h2 == bytesToNumber(msgHash2)
  IN IF r1 # r2
     THEN Throw("Signatures do not use the same nonce (r values are different)")
     ELSE IF s1 = s2 THEN Throw("Signatures are identical")
     ELSE extractSolve(r1, s1, s2, h1, h2)

\* extractPrivateKey, lines 183-209: the arguments of the modInverse calls
\* it makes, in order
extractPrivateKeyInverses(sig1, sig2, hash1, hash2) ==
  LET r1 == bytesToNumber(sig1.r)
      s1 == bytesToNumber(sig1.s)
      r2 == bytesToNumber(sig2.r)
      s2 == bytesToNumber(sig2.s)
      sDiff == mod(s1 - s2, CurveN)
  IN IF r1 # r2 \/ s1 = s2 \/ sDiff = 0 THEN <<>>
     ELSE IF ~modInverse(sDiff, CurveN).ok THEN <<sDiff>>
     ELSE <<sDiff, r1>>

getPublicKey(privateKey) == getPublicKeySecp(privateKey, TRUE)

\* the characters b, c, 1, p of the address prefix
Bc1p == <<11, 12, 1, 25>>

\* deriveTaprootAddress, lines 221-233: "bc1p" and the hex of the x-only key
deriveTaprootAddress(privateKey) ==
  LET publicKey == getPublicKeySecp(privateKey, TRUE)
  IN IF ~publicKey.ok THEN publicKey
     ELSE LET xOnlyPubKey == Tail(publicKey.value)
          IN Return(Bc1p \o bytesToHex(xOnlyPubKey))

----------------------------------------------------------------------------
(* The session: the calls a caller of the library makes, in the order of   *)
(* runEOTSTests (test.ts) and demonstrateNonceReuse: a key pair, a first   *)
(* signature (verified or not), a second signature, an extraction; and     *)
(* verifyEOTS called on arbitrary inputs.  The library keeps no state: the *)
(* variables hold the arguments and results of the calls made so far.      *)

\* the largest number a caller passes as a digest, a nonce or a signature
\* component: up to it, every KeyLen-byte value
MaxInput == 15

\* the byte strings callers pass
CallerInputs == {numberToBytes(v, KeyLen) : v \in 0 .. MaxInput}

\* what a caller may pass as a nonce: bytes, or nothing
NonceInputs == CallerInputs \cup {Undefined}

\* public keys passed to verifyEOTS: every point's compressed encoding, an
\* x that is on no point, and a key without its prefix byte
PubKeyInputs ==
  {encodePoint(MulG[d], TRUE) : d \in 1 .. (CurveN - 1)} \cup {<<2, 0>>, <<6>>}

\* digests passed to verifyEOTS: bytes, or an empty digest
DigestInputs == CallerInputs \cup {<<>>}

\* signature components passed to verifyEOTS: bytes, or a missing field
ComponentInputs == CallerInputs \cup {Undefined}

\* no library session is running
NoSession ==
  /\ pc = "idle"
  /\ keyPair = None
  /\ slot1 = None
  /\ slot2 = None
  /\ vcall = None
  /\ ecall = None

\* no single call is under way
NoCalls == xcall = None /\ inv = None /\ codec = None

\* the page is not mounted
NoPage ==
  /\ formData = None
  /\ results = None
  /\ errors = None
  /\ called = None

Init == NoSession /\ NoCalls /\ NoPage

\* generateEOTSKeyPair, lines 52-53: the first draw
GenerateKeyPairDraw ==
  /\ pc = "idle"
  /\ \E drawn \in Scalars :
       keyPair' = [privateKey |-> drawn, publicKey |-> Undefined]
  /\ pc' = "keygen"
  /\ UNCHANGED <<slot1, slot2, vcall, ecall>>
  /\ UNCHANGED <<callVars, pageVars>>

\* generateEOTSKeyPair, lines 56-58: one turn of the rejection loop
GenerateKeyPairRedraw ==
  /\ pc = "keygen"
  /\ bytesToNumber(keyPair.privateKey) >= CurveN
  /\ \E drawn \in Scalars :
       keyPair' = [privateKey |-> drawn, publicKey |-> Undefined]
  /\ UNCHANGED <<pc, slot1, slot2, vcall, ecall>>
  /\ UNCHANGED <<callVars, pageVars>>

\* mutant: the public key is derived in uncompressed form
GenerateKeyPairReturn_uncompressed ==
  /\ pc = "keygen"
  /\ bytesToNumber(keyPair.privateKey) < CurveN
  /\ LET publicKey == getPublicKeySecp(keyPair.privateKey, FALSE)
     IN IF publicKey.ok
        THEN /\ keyPair' = [privateKey |-> keyPair.privateKey,
                            publicKey |-> publicKey.value]
             /\ pc' = "keyed"
        ELSE /\ keyPair' = None
             /\ pc' = "failed"
  /\ UNCHANGED <<slot1, slot2, vcall, ecall>>
  /\ UNCHANGED <<callVars, pageVars>>

\* generateEOTSKeyPair, lines 60-65: the public key and the return
GenerateKeyPairReturn ==
  /\ pc = "keygen"
  /\ bytesToNumber(keyPair.privateKey) < CurveN
  /\ LET publicKey == getPublicKeySecp(keyPair.privateKey, TRUE)
     IN IF publicKey.ok
        THEN /\ keyPair' = [privateKey |-> keyPair.privateKey,
                            publicKey |-> publicKey.value]
             /\ pc' = "keyed"
        ELSE /\ keyPair' = None
             /\ pc' = "failed"
  /\ UNCHANGED <<slot1, slot2, vcall, ecall>>
  /\ UNCHANGED <<callVars, pageVars>>

\* signEOTS(keyPair.privateKey, h, nonce?) for the first signature
SignFirst ==
  /\ pc = "keyed"
  /\ \E h \in CallerInputs, nonce \in NonceInputs :
       slot1' = [h |-> h, nonce |-> nonce,
                 res |-> signEOTS(keyPair.privateKey, h, nonce)]
  /\ pc' = "signed1"
  /\ UNCHANGED <<keyPair, slot2, vcall, ecall>>
  /\ UNCHANGED <<callVars, pageVars>>

\* verifyEOTS(keyPair.publicKey, h, signature) on the first signature
VerifySigned ==
  /\ pc = "signed1"
  /\ slot1.res.ok
  /\ \E lib \in LibBuilds :
       vcall' = [publicKey |-> keyPair.publicKey, messageHash |-> slot1.h,
                 signature |-> slot1.res.value, lib |-> lib,
                 res |-> verifyEOTS(keyPair.publicKey, slot1.h, slot1.res.value, lib)]
  /\ UNCHANGED <<pc, keyPair, slot1, slot2, ecall>>
  /\ UNCHANGED <<callVars, pageVars>>

\* signEOTS(keyPair.privateKey, h, nonce?) for the second signature
SignSecond ==
  /\ pc = "signed1"
  /\ slot1.res.ok
  /\ \E h \in CallerInputs, nonce \in NonceInputs :
       slot2' = [h |-> h, nonce |-> nonce,
                 res |-> signEOTS(keyPair.privateKey, h, nonce)]
  /\ vcall' = None
  /\ pc' = "signed2"
  /\ UNCHANGED <<keyPair, slot1, ecall>>
  /\ UNCHANGED <<callVars, pageVars>>

\* extractPrivateKey(sig1, sig2, h1, h2) on the two signatures
Extract ==
  /\ pc = "signed2"
  /\ slot2.res.ok
  /\ ecall' = extractPrivateKey(slot1.res.value, slot2.res.value, slot1.h, slot2.h)
  /\ pc' = "extracted"
  /\ UNCHANGED <<keyPair, slot1, slot2, vcall>>
  /\ UNCHANGED <<callVars, pageVars>>

\* verifyEOTS on arbitrary arguments
VerifyCall ==
  /\ pc = "idle"
  /\ \E publicKey \in PubKeyInputs, messageHash \in DigestInputs,
        r \in ComponentInputs, s \in ComponentInputs, lib \in LibBuilds :
       vcall' = [publicKey |-> publicKey, messageHash |-> messageHash,
                 signature |-> [r |-> r, s |-> s], lib |-> lib,
                 res |-> verifyEOTS(publicKey, messageHash, [r |-> r, s |-> s], lib)]
  /\ pc' = "verified"
  /\ UNCHANGED <<keyPair, slot1, slot2, ecall>>
  /\ UNCHANGED <<callVars, pageVars>>

\* the script ends (or its error is reported); the next one starts afresh
Finish ==
  /\ pc \in {"failed", "signed1", "signed2", "extracted", "verified"}
  /\ pc' = "idle"
  /\ keyPair' = None
  /\ slot1' = None
  /\ slot2' = None
  /\ vcall' = None
  /\ ecall' = None
  /\ UNCHANGED <<callVars, pageVars>>

Next ==
  \/ GenerateKeyPairDraw
  \/ GenerateKeyPairRedraw
  \/ GenerateKeyPairReturn
  \/ SignFirst
  \/ VerifySigned
  \/ SignSecond
  \/ Extract
  \/ VerifyCall
  \/ Finish

Spec == Init /\ [][Next]_vars

\* a turn of the rejection loop in which crypto.getRandomValues yields a
\* value below n
RedrawBelowN ==
  GenerateKeyPairRedraw /\ bytesToNumber(keyPair'.privateKey) < CurveN

\* the session with a running generateEOTSKeyPair call going on: the random
\* source eventually yields a value below n, and the statements after the
\* loop are executed
SpecKeyGen ==
  Spec /\ WF_vars(RedrawBelowN) /\ WF_vars(GenerateKeyPairReturn)

----------------------------------------------------------------------------
(* extractPrivateKey called on arbitrary signatures and digests *)

\* the largest number passed as r, s or digest: up to it, every KeyLen-byte
\* value
MaxExtractInput == 7

ExtractInputs == {numberToBytes(v, KeyLen) : v \in 0 .. MaxExtractInput}

InitExtract == NoSession /\ NoCalls /\ NoPage

\* extractPrivateKey(sig1, sig2, hash1, hash2)
ExtractCall ==
  /\ xcall = None
  /\ \E r1 \in ExtractInputs, s1 \in ExtractInputs, r2 \in ExtractInputs,
        s2 \in ExtractInputs, hash1 \in ExtractInputs, hash2 \in ExtractInputs :
       LET sig1 == [r |-> r1, s |-> s1]
           sig2 == [r |-> r2, s |-> s2]
       IN xcall' = [sig1 |-> sig1, sig2 |-> sig2, hash1 |-> hash1, hash2 |-> hash2,
                    res |-> extractPrivateKey(sig1, sig2, hash1, hash2),
                    inverses |-> extractPrivateKeyInverses(sig1, sig2, hash1, hash2)]
  /\ UNCHANGED <<inv, codec, sessionVars, pageVars>>

\* the call is over: the caller has its key or its error
ExtractReturn ==
  /\ xcall # None
  /\ xcall' = None
  /\ UNCHANGED <<inv, codec, sessionVars, pageVars>>

NextExtract == ExtractCall \/ ExtractReturn

SpecExtract == InitExtract /\ [][NextExtract]_vars

----------------------------------------------------------------------------
(* modInverse(a, CurveN) run statement by statement on an arbitrary a *)

\* the largest |a| passed to modInverse
MaxInverseArg == 30

\* the locals of a modInverse call at the point `at`
InverseFrame(at, a, old_r, r, old_s, s, res) ==
  [at |-> at, a |-> a, m |-> CurveN,
   old_r |-> old_r, r |-> r, old_s |-> old_s, s |-> s, res |-> res]

InitInverse ==
  /\ NoSession
  /\ NoPage
  /\ xcall = None
  /\ codec = None
  /\ \E a \in (-MaxInverseArg) .. MaxInverseArg :
       inv = InverseFrame("entry", a, 0, 0, 0, 0, None)

\* lines 29-32: a negative a is reduced, the four locals are set
InverseEnter ==
  /\ inv.at = "entry"
  /\ LET a == IF inv.a < 0 THEN mod(inv.a, inv.m) ELSE inv.a
     IN inv' = InverseFrame("loop", inv.a, a, inv.m, 1, 0, None)
  /\ UNCHANGED <<xcall, codec, sessionVars, pageVars>>

\* lines 34-38: one turn of the while loop
InverseLoop ==
  /\ inv.at = "loop"
  /\ inv.r # 0
  /\ LET quotient == JsDiv(inv.old_r, inv.r)
     IN inv' = InverseFrame("loop", inv.a, inv.r, inv.old_r - quotient * inv.r,
                            inv.s, inv.old_s - quotient * inv.s, None)
  /\ UNCHANGED <<xcall, codec, sessionVars, pageVars>>

\* mutant: a negative coefficient is returned as it is
InverseExit_noFixup ==
  /\ inv.at = "loop"
  /\ inv.r = 0
  /\ inv' = [inv EXCEPT !.at = "done",
                        !.res = IF inv.old_r > 1
                                THEN Throw("Modular inverse does not exist")
                                ELSE Return(inv.old_s)]
  /\ UNCHANGED <<xcall, codec, sessionVars, pageVars>>

\* lines 40-43: the loop is left; throw, or fix the sign and return
InverseExit ==
  /\ inv.at = "loop"
  /\ inv.r = 0
  /\ inv' = [inv EXCEPT !.at = "done",
                        !.res = IF inv.old_r > 1
                                THEN Throw("Modular inverse does not exist")
                                ELSE Return(IF inv.old_s < 0 THEN inv.old_s + inv.m
                                            ELSE inv.old_s)]
  /\ UNCHANGED <<xcall, codec, sessionVars, pageVars>>

NextInverse == InverseEnter \/ InverseLoop \/ InverseExit

\* the call runs to its end: nothing in it waits
SpecInverse == InitInverse /\ [][NextInverse]_vars /\ WF_vars(NextInverse)

----------------------------------------------------------------------------
(* The scalar codec: numberToBytes and bytesToNumber applied one after the *)
(* other to an arbitrary number or byte string of a given width            *)

\* the largest width (in bytes) the codec is called with
MaxCodecLen == 2

\* the numbers below ByteBase^length
RECURSIVE WidthLimit(_)
WidthLimit(length) == IF length = 0 THEN 1 ELSE ByteBase * WidthLimit(length - 1)

\* a conversion and its inverse: the input, the converted value, and the
\* value converted back
CodecFrame(at, from, length, num, bytes, back) ==
  [at |-> at, from |-> from, length |-> length, num |-> num, bytes |-> bytes,
   back |-> back]

InitCodec == NoSession /\ NoCalls /\ NoPage

\* numberToBytes(num, length) on a number below 2^(8 length)
EncodeNumber ==
  /\ codec = None
  /\ \E length \in 1 .. MaxCodecLen :
       \E num \in 0 .. (WidthLimit(length) - 1) :
         codec' = CodecFrame("converted", "number", length, num,
                             numberToBytes(num, length), None)
  /\ UNCHANGED <<xcall, inv, sessionVars, pageVars>>

\* bytesToNumber on the bytes numberToBytes returned
DecodeBack ==
  /\ codec # None
  /\ codec.at = "converted"
  /\ codec.from = "number"
  /\ codec' = [codec EXCEPT !.at = "done", !.back = bytesToNumber(codec.bytes)]
  /\ UNCHANGED <<xcall, inv, sessionVars, pageVars>>

\* bytesToNumber(bytes) on a byte string of the width
DecodeBytes ==
  /\ codec = None
  /\ \E length \in 1 .. MaxCodecLen :
       \E bytes \in SeqsOfLen(Byte, length) :
         codec' = CodecFrame("converted", "bytes", length, bytesToNumber(bytes),
                             bytes, None)
  /\ UNCHANGED <<xcall, inv, sessionVars, pageVars>>

\* numberToBytes on the number bytesToNumber returned
EncodeBack ==
  /\ codec # None
  /\ codec.at = "converted"
  /\ codec.from = "bytes"
  /\ codec' = [codec EXCEPT !.at = "done",
                            !.back = numberToBytes(codec.num, codec.length)]
  /\ UNCHANGED <<xcall, inv, sessionVars, pageVars>>

\* the caller has its value
CodecReturn ==
  /\ codec # None
  /\ codec.at = "done"
  /\ codec' = None
  /\ UNCHANGED <<xcall, inv, sessionVars, pageVars>>

NextCodec ==
  \/ EncodeNumber
  \/ DecodeBack
  \/ DecodeBytes
  \/ EncodeBack
  \/ CodecReturn

SpecCodec == InitCodec /\ [][NextCodec]_vars

----------------------------------------------------------------------------
(* The page: the Home component with its form, its results and its errors. *)
(* A handler is an operator from the state it reads to the state it leaves *)
(* and the core functions it invoked; an action applies it.                *)

Fields ==
  {"privateKey", "nonce", "messageText", "messageHash", "publicKey",
   "signatureR", "signatureS", "signature1R", "signature1S", "signature2R",
   "signature2S", "messageHash1", "messageHash2"}

\* useState initial values, lines 26-50
InitialFormData == [field \in Fields |-> <<>>]

InitialResults ==
  [generatedSignature |-> None, verificationResult |-> None,
   extractedPrivateKey |-> <<>>, taprootAddress |-> <<>>,
   generatedPublicKey |-> <<>>]

InitialErrors == <<>>

\* updateFormData, lines 52-54
updateFormData(fd, field, value) == [fd EXCEPT ![field] = value]

\* what a handler leaves behind
PageState(fd, rs, errs, core) ==
  [formData |-> fd, results |-> rs, errors |-> errs, core |-> core]

\* the catch clause of a handler: `${prefix}${error}` of an Error
Caught(prefix, res) == <<prefix \o "Error: " \o res.error>>

\* handleMessageTextChange, lines 74-85; " " is the character Blank
Blank == 8

handleMessageTextChange(fd, text) ==
  LET \* text.trim() is non-empty exactly when some character is not blank
      trimmed == SelectSeq(text, LAMBDA c : c # Blank)
      withText == updateFormData(fd, "messageText", text)
  IN IF trimmed # <<>>
     THEN LET messageBytes == text
              hashBytes == sha256(messageBytes)
              hashHex == bytesToHex(hashBytes)
          IN updateFormData(withText, "messageHash", hashHex)
     ELSE updateFormData(withText, "messageHash", <<>>)

\* mutant: r and s are filled into each other's field
autoFillVerificationForm_swapped(fd, publicKey, signature) ==
  updateFormData(
    updateFormData(
      updateFormData(fd, "publicKey", bytesToHex(publicKey)),
      "signatureR", bytesToHex(signature.s)),
    "signatureS", bytesToHex(signature.r))

\* handleGenerateSignature, lines 123-126: the verification form is filled
autoFillVerificationForm(fd, publicKey, signature) ==
  updateFormData(
    updateFormData(
      updateFormData(fd, "publicKey", bytesToHex(publicKey)),
      "signatureR", bytesToHex(signature.r)),
    "signatureS", bytesToHex(signature.s))

\* handleGenerateSignature, lines 87-130
handleGenerateSignature(fd, rs) ==
  IF fd.privateKey = <<>> \/ fd.messageHash = <<>>
  THEN PageState(fd, rs, <<"Private key and message hash are required">>, {})
  ELSE IF ~isValidHex(fd.privateKey, KeyLen)
  THEN PageState(fd, rs, <<"Invalid private key format (must be 64 hex characters)">>, {})
  ELSE IF ~isValidHex(fd.messageHash, KeyLen)
  THEN PageState(fd, rs, <<"Invalid message hash format (must be 64 hex characters)">>, {})
  ELSE IF fd.nonce # <<>> /\ ~isValidHex(fd.nonce, KeyLen)
  THEN PageState(fd, rs, <<"Invalid nonce format (must be 64 hex characters)">>, {})
  ELSE
    LET prefix == "Error generating signature: "
        signature == signEOTS(hexToBytes(fd.privateKey), hexToBytes(fd.messageHash),
                              IF fd.nonce # <<>> THEN hexToBytes(fd.nonce)
                              ELSE Undefined)
        publicKey == getPublicKey(hexToBytes(fd.privateKey))
        taprootAddress == deriveTaprootAddress(hexToBytes(fd.privateKey))
    IN IF ~signature.ok
       THEN PageState(fd, rs, Caught(prefix, signature), {"signEOTS"})
       ELSE IF ~publicKey.ok
       THEN PageState(fd, rs, Caught(prefix, publicKey), {"signEOTS", "getPublicKey"})
       ELSE IF ~taprootAddress.ok
       THEN PageState(fd, rs, Caught(prefix, taprootAddress),
                      {"signEOTS", "getPublicKey", "deriveTaprootAddress"})
       ELSE PageState(
              autoFillVerificationForm(fd, publicKey.value, signature.value),
              [rs EXCEPT !.generatedSignature = signature.value,
                         !.generatedPublicKey = bytesToHex(publicKey.value),
                         !.taprootAddress = taprootAddress.value],
              <<>>,
              {"signEOTS", "getPublicKey", "deriveTaprootAddress"})

\* verificationResult when it is a boolean
Bool(b) == [bool |-> b]

\* handleVerifySignature, lines 132-160, with the linked library build
handleVerifySignature(fd, rs, lib) ==
  IF fd.publicKey = <<>> \/ fd.messageHash = <<>>
     \/ fd.signatureR = <<>> \/ fd.signatureS = <<>>
  THEN PageState(fd, rs,
                 <<"Public key, message hash, and signature (r, s) are required">>, {})
  ELSE IF ~isValidHex(fd.publicKey, KeyLen + 1)
  THEN PageState(fd, rs,
         <<"Invalid public key format (must be 66 hex characters for compressed key)">>,
         {})
  ELSE
    LET signature == [r |-> hexToBytes(fd.signatureR), s |-> hexToBytes(fd.signatureS)]
        isValid == verifyEOTS(hexToBytes(fd.publicKey), hexToBytes(fd.messageHash),
                              signature, lib)
    IN IF ~isValid.ok
       THEN PageState(fd, rs, Caught("Error verifying signature: ", isValid),
                      {"verifyEOTS"})
       ELSE PageState(fd, [rs EXCEPT !.verificationResult = Bool(isValid.value)],
                      <<>>, {"verifyEOTS"})

\* mutant: the extracted key is put into the results before its address is
\* derived
handleExtractPrivateKey_keyShownFirst(fd, rs) ==
  IF fd.signature1R = <<>> \/ fd.signature1S = <<>> \/ fd.signature2R = <<>>
     \/ fd.signature2S = <<>> \/ fd.messageHash1 = <<>> \/ fd.messageHash2 = <<>>
  THEN PageState(fd, rs,
                 <<"All signature components and message hashes are required">>, {})
  ELSE
    LET prefix == "Error extracting private key: "
        sig1 == [r |-> hexToBytes(fd.signature1R), s |-> hexToBytes(fd.signature1S)]
        sig2 == [r |-> hexToBytes(fd.signature2R), s |-> hexToBytes(fd.signature2S)]
        extractedKey == extractPrivateKey(sig1, sig2, hexToBytes(fd.messageHash1),
                                          hexToBytes(fd.messageHash2))
    IN IF ~extractedKey.ok
       THEN PageState(fd, rs, Caught(prefix, extractedKey), {"extractPrivateKey"})
       ELSE LET extractedKeyHex == bytesToHex(extractedKey.value)
                shown == [rs EXCEPT !.extractedPrivateKey = extractedKeyHex]
                taprootAddress == deriveTaprootAddress(extractedKey.value)
            IN IF ~taprootAddress.ok
               THEN PageState(fd, shown, Caught(prefix, taprootAddress),
                              {"extractPrivateKey", "deriveTaprootAddress"})
               ELSE PageState(fd,
                              [shown EXCEPT !.taprootAddress = taprootAddress.value],
                              <<>>,
                              {"extractPrivateKey", "deriveTaprootAddress"})

\* handleExtractPrivateKey, lines 162-193
handleExtractPrivateKey(fd, rs) ==
  IF fd.signature1R = <<>> \/ fd.signature1S = <<>> \/ fd.signature2R = <<>>
     \/ fd.signature2S = <<>> \/ fd.messageHash1 = <<>> \/ fd.messageHash2 = <<>>
  THEN PageState(fd, rs,
                 <<"All signature components and message hashes are required">>, {})
  ELSE
    LET prefix == "Error extracting private key: "
        sig1 == [r |-> hexToBytes(fd.signature1R), s |-> hexToBytes(fd.signature1S)]
        sig2 == [r |-> hexToBytes(fd.signature2R), s |-> hexToBytes(fd.signature2S)]
        extractedKey == extractPrivateKey(sig1, sig2, hexToBytes(fd.messageHash1),
                                          hexToBytes(fd.messageHash2))
    IN IF ~extractedKey.ok
       THEN PageState(fd, rs, Caught(prefix, extractedKey), {"extractPrivateKey"})
       ELSE LET extractedKeyHex == bytesToHex(extractedKey.value)
                taprootAddress == deriveTaprootAddress(extractedKey.value)
            IN IF ~taprootAddress.ok
               THEN PageState(fd, rs, Caught(prefix, taprootAddress),
                              {"extractPrivateKey", "deriveTaprootAddress"})
               ELSE PageState(fd,
                              [rs EXCEPT !.extractedPrivateKey = extractedKeyHex,
                                         !.taprootAddress = taprootAddress.value],
                              <<>>,
                              {"extractPrivateKey", "deriveTaprootAddress"})

\* mutant: the results are not reset
handleRefresh_resultsKept ==
  PageState(InitialFormData, results, <<>>, {})

\* handleRefresh, lines 208-232
handleRefresh ==
  PageState(
    [privateKey |-> <<>>, nonce |-> <<>>, messageText |-> <<>>, messageHash |-> <<>>,
     publicKey |-> <<>>, signatureR |-> <<>>, signatureS |-> <<>>,
     signature1R |-> <<>>, signature1S |-> <<>>, signature2R |-> <<>>,
     signature2S |-> <<>>, messageHash1 |-> <<>>, messageHash2 |-> <<>>],
    [generatedSignature |-> None, verificationResult |-> None,
     extractedPrivateKey |-> <<>>, taprootAddress |-> <<>>,
     generatedPublicKey |-> <<>>],
    <<>>,
    {})

\* generateEOTSKeyPair, lines 60-65, for the private key its loop ended with
generateEOTSKeyPairWith(privateKey) ==
  LET publicKey == getPublicKeySecp(privateKey, TRUE)
  IN IF ~publicKey.ok THEN publicKey
     ELSE Return([privateKey |-> privateKey, publicKey |-> publicKey.value])

\* handleGenerateKeyPair, lines 195-206: it has no try, an error of
\* generateEOTSKeyPair leaves the handler before any state is set
handleGenerateKeyPair(fd, rs, errs, pair) ==
  IF ~pair.ok THEN PageState(fd, rs, errs, {"generateEOTSKeyPair"})
  ELSE LET taprootAddress == deriveTaprootAddress(pair.value.privateKey)
       IN PageState(
            updateFormData(
              updateFormData(fd, "privateKey", bytesToHex(pair.value.privateKey)),
              "publicKey", bytesToHex(pair.value.publicKey)),
            [rs EXCEPT !.generatedPublicKey = bytesToHex(pair.value.publicKey),
                       !.taprootAddress = taprootAddress.value],
            errs,
            {"generateEOTSKeyPair", "deriveTaprootAddress"})

\* the largest value the random source gives
MaxRandom == 1

\* The sections of the page, lines 280-431: signing with verification (which
\* reads the digest of the signing form), and extraction.
SigningFields ==
  {"privateKey", "nonce", "messageText", "messageHash", "publicKey",
   "signatureR", "signatureS"}

ExtractionFields == Fields \ SigningFields

\* The user works on one section at a time: a field is edited only while
\* the fields of the other section are empty; and the digest to sign is
\* given as a text or as hex: the hash field is edited only while the text
\* area is empty.  Every button stays available.
InFocus(field) ==
  LET other == IF field \in SigningFields THEN ExtractionFields ELSE SigningFields
  IN /\ \A g \in other : formData[g] = <<>>
     /\ field = "messageHash" => formData.messageText = <<>>

Hex(v) == bytesToHex(numberToBytes(v, KeyLen))

\* one hex character short of a scalar (63 characters in the program)
ShortHex == Tail(Hex(1))

\* a public key without its prefix byte (64 characters in the program)
BarePublicKeyHex == bytesToHex(Tail(encodePoint(MulG[1], TRUE)))

\* what the user types or pastes into a field; the signature fields of the
\* verification form are left to the auto-fill
TypedInputs(field) ==
  CASE field = "privateKey" -> {Hex(0), ShortHex}
    [] field = "nonce" -> {Hex(1), ShortHex}
    [] field = "messageHash" -> {Hex(3), ShortHex}
    [] field = "publicKey" -> {BarePublicKeyHex}
    [] field = "signatureR" -> {}
    [] field = "signatureS" -> {}
    [] field = "signature1R" -> {Hex(6)}
    [] field = "signature1S" -> {Hex(6)}
    [] field = "signature2R" -> {Hex(6)}
    [] field = "signature2S" -> {Hex(1)}
    [] field = "messageHash1" -> {Hex(1), ShortHex}
    [] field = "messageHash2" -> {Hex(6)}

\* what the user leaves in the message text area: nothing, or a text
TextInputs == {<<>>, <<Blank, 5>>}

RandomFields == {"privateKey", "nonce", "messageHash", "messageHash1", "messageHash2"}

\* generateRandomHex32, utils.ts lines 30-34
RandomHex == {Hex(v) : v \in 1 .. MaxRandom}

InitPage ==
  /\ NoSession
  /\ NoCalls
  /\ formData = InitialFormData
  /\ results = InitialResults
  /\ errors = InitialErrors
  /\ called = None

\* the state a handler leaves becomes the page's state
Render(handler, out) ==
  /\ formData' = out.formData
  /\ results' = out.results
  /\ errors' = out.errors
  /\ called' = [handler |-> handler, core |-> out.core]
  /\ UNCHANGED <<sessionVars, callVars>>

\* onChange of an input, lines 288-422
TypeField ==
  /\ \E field \in Fields \ {"messageText"} :
       \E value \in TypedInputs(field) :
         /\ InFocus(field)
         /\ Render("updateFormData",
                   PageState(updateFormData(formData, field, value), results, errors, {}))

\* onChange of the message text area, line 298
TypeMessageText ==
  /\ \E text \in TextInputs :
       /\ InFocus("messageText")
       /\ Render("handleMessageTextChange",
                 PageState(handleMessageTextChange(formData, text), results, errors, {}))

\* generateRandom, lines 56-72
GenerateRandom ==
  /\ \E field \in RandomFields :
       \E value \in RandomHex :
         /\ InFocus(field)
         /\ Render("updateFormData",
                   PageState(updateFormData(formData, field, value), results, errors, {}))

\* the Generate Key Pair button, line 260
GenerateKeyPair ==
  /\ \E v \in 0 .. MaxRandom :
       LET pair == generateEOTSKeyPairWith(numberToBytes(v, KeyLen))
           out == handleGenerateKeyPair(formData, results, errors, pair)
       IN /\ v < CurveN
          /\ InFocus("privateKey")
          /\ IF pair.ok THEN Render("handleGenerateKeyPair", out)
             \* the exception leaves the handler: no state is set, nothing
             \* is rendered
             ELSE UNCHANGED vars

\* the Generate Signature button, line 324
GenerateSignature ==
  /\ Render("handleGenerateSignature", handleGenerateSignature(formData, results))

\* the Verify Signature button, line 368
VerifySignature ==
  /\ \E lib \in LibBuilds :
       Render("handleVerifySignature", handleVerifySignature(formData, results, lib))

\* the Extract Private Key button, line 431
ExtractPrivateKey ==
  /\ Render("handleExtractPrivateKey", handleExtractPrivateKey(formData, results))

\* the Refresh button, line 454
Refresh ==
  /\ Render("handleRefresh", handleRefresh)

NextPage ==
  \/ TypeField
  \/ TypeMessageText
  \/ GenerateRandom
  \/ GenerateKeyPair
  \/ GenerateSignature
  \/ VerifySignature
  \/ ExtractPrivateKey
  \/ Refresh

SpecPage == InitPage /\ [][NextPage]_vars

----------------------------------------------------------------------------
(* Properties *)

Num(bytes) == bytesToNumber(bytes)

NonceMismatchError ==
  "Signatures do not use the same nonce (r values are different)"

\* the nonce bytes a signing call works with: the supplied ones, or the
\* hash of the private key bytes followed by the digest bytes
NonceUsed(slot) ==
  IF slot.nonce # Undefined THEN slot.nonce ELSE sha256(keyPair.privateKey \o slot.h)

\* both signatures were made with the same supplied nonce and extraction ran
C1_SharedNonce ==
  pc = "extracted" /\ slot1.nonce # Undefined /\ slot2.nonce = slot1.nonce

\* C1 as stated: with a shared nonce and two distinct digests, extraction
\* returns exactly the private key.
C1_Original ==
  (C1_SharedNonce /\ slot1.h # slot2.h) => ecall = Return(keyPair.privateKey)

\* C1, amended: with a shared nonce and two digests that differ mod n (both
\* signatures returned), extraction returns exactly the private key, except
\* that it fails with the no-inverse error when the shared r is a multiple
\* of n.
C1_Recovery ==
  (C1_SharedNonce /\ Num(slot1.h) % CurveN # Num(slot2.h) % CurveN)
    => IF Num(slot1.res.value.r) % CurveN # 0
       THEN ecall = Return(keyPair.privateKey)
       ELSE ecall = Throw("Modular inverse does not exist")

C1_Witness ==
  /\ C1_SharedNonce
  /\ Num(slot1.h) % CurveN # Num(slot2.h) % CurveN
  /\ ecall.ok
  /\ ecall.value = keyPair.privateKey

\* C2: a signature made without an explicit nonce verifies under the
\* signer's public key: verifyEOTS(getPublicKey(x), h, signEOTS(x, h)) is true.
C2_RoundTrip ==
  (pc = "signed1" /\ vcall # None /\ slot1.nonce = Undefined)
    => vcall.res.value = TRUE

\* two signatures made with two different supplied nonces, and extraction ran
C3_DistinctNonces ==
  /\ pc = "extracted"
  /\ slot1.nonce # Undefined
  /\ slot2.nonce # Undefined
  /\ slot1.nonce # slot2.nonce

\* C3 as stated: with two different nonces extraction fails with the
\* nonce-mismatch error.
C3_Original == C3_DistinctNonces => ecall = Throw(NonceMismatchError)

\* C3, amended: with two different nonces k1, k2 that do not add up to n
\* (both signatures returned), extraction fails with the nonce-mismatch
\* error and returns no key.
C3_NonRecovery ==
  (C3_DistinctNonces /\ Num(slot1.nonce) + Num(slot2.nonce) # CurveN)
    => ecall = Throw(NonceMismatchError)

C3_Witness ==
  /\ C3_DistinctNonces
  /\ Num(slot1.nonce) + Num(slot2.nonce) # CurveN
  /\ ~ecall.ok
  /\ ecall.error = NonceMismatchError

\* verifyEOTS reached the library's verify, and that call threw
VerifyPrimitiveThrew ==
  /\ vcall # None
  /\ vcall.res.curveCalled
  /\ ~verify(vcall.signature.r \o vcall.signature.s, vcall.messageHash,
             vcall.publicKey, vcall.lib).ok

\* C4: whenever the library's verify throws, verifyEOTS returns false.
C4_NeverFailsOpen == VerifyPrimitiveThrew => vcall.res.value = FALSE

\* C5: every verifyEOTS call ends by returning a boolean; no error reaches
\* the caller, whatever the public key, digest and signature.
C5_Total == vcall # None => (vcall.res.ok /\ vcall.res.value \in BOOLEAN)

C5_Witness ==
  /\ vcall # None
  /\ vcall.signature.r = Undefined
  /\ vcall.res.ok
  /\ vcall.res.value = FALSE

\* the signature handed to verifyEOTS has both components
VerifyComponentsGiven ==
  vcall # None /\ vcall.signature.r # Undefined /\ vcall.signature.s # Undefined

\* C6: a signature whose r or s is 0 or >= n is answered false without the
\* library's verify being invoked, whatever the public key and digest.
C6_RangeRejected ==
  (/\ VerifyComponentsGiven
   /\ \/ Num(vcall.signature.r) = 0
      \/ Num(vcall.signature.r) >= CurveN
      \/ Num(vcall.signature.s) = 0
      \/ Num(vcall.signature.s) >= CurveN)
    => (vcall.res.ok /\ vcall.res.value = FALSE /\ ~vcall.res.curveCalled)

C6_Witness ==
  /\ VerifyComponentsGiven
  /\ Num(vcall.signature.r) = CurveN
  /\ Num(vcall.signature.s) \in 1 .. (CurveN - 1)
  /\ ~decodePoint(vcall.publicKey).inf
  /\ vcall.res.value = FALSE
  /\ ~vcall.res.curveCalled

\* C7: for a public point Q, a digest h and 0 < r, s < n, verifyEOTS returns
\* true exactly when the x-coordinate of (h*w)*G + (r*w)*Q mod n is r, with
\* w = s^-1 mod n.
C7_Canonical ==
  (/\ VerifyComponentsGiven
   /\ ~decodePoint(vcall.publicKey).inf
   /\ Len(vcall.messageHash) = KeyLen
   /\ Num(vcall.signature.r) \in 1 .. (CurveN - 1)
   /\ Num(vcall.signature.s) \in 1 .. (CurveN - 1))
    => vcall.res.value = EcdsaAccepts(decodePoint(vcall.publicKey),
                                      Num(vcall.messageHash) % CurveN,
                                      Num(vcall.signature.r),
                                      Num(vcall.signature.s))

SignatureInRange(sig) ==
  /\ Num(sig.r) \in 1 .. (CurveN - 1)
  /\ Num(sig.s) \in 1 .. (CurveN - 1)

\* C8: every signature signEOTS returns has 0 < r < n and 0 < s < n.
C8_SignatureRange ==
  /\ (slot1 # None /\ slot1.res.ok) => SignatureInRange(slot1.res.value)
  /\ (slot2 # None /\ slot2.res.ok) => SignatureInRange(slot2.res.value)

\* the signing call of a slot was made without a nonce argument
C9_Derived(slot) == slot # None /\ slot.nonce = Undefined

\* C9: two signEOTS calls without a nonce for the same key and digest give
\* the same result, and each gives what signing with the nonce
\* sha256(privateKey bytes || digest bytes) gives.
C9_Deterministic ==
  /\ (C9_Derived(slot1) /\ C9_Derived(slot2) /\ slot1.h = slot2.h)
       => slot1.res = slot2.res
  /\ C9_Derived(slot1)
       => slot1.res = signEOTS(keyPair.privateKey, slot1.h,
                               sha256(keyPair.privateKey \o slot1.h))
  /\ C9_Derived(slot2)
       => slot2.res = signEOTS(keyPair.privateKey, slot2.h,
                               sha256(keyPair.privateKey \o slot2.h))

C9_Witness ==
  /\ C9_Derived(slot1)
  /\ C9_Derived(slot2)
  /\ slot1.h = slot2.h
  /\ slot2.res.ok

C10_Slot(slot) ==
  LET k == Num(NonceUsed(slot))
  IN /\ (k = 0 \/ k >= CurveN) => slot.res = Throw("Invalid nonce generated")
     /\ (slot.nonce # Undefined /\ slot.res.ok)
          => /\ k \in 1 .. (CurveN - 1)
             /\ slot.res.value.r = numberToBytes(MulG[k].x, KeyLen)
             /\ (Num(slot.res.value.s) * k) % CurveN
                  = (Num(slot.h) + Num(slot.res.value.r) * Num(keyPair.privateKey))
                      % CurveN

\* C10: a supplied nonce is the k the signature is made with, and a nonce,
\* supplied or derived, whose value is 0 or >= n makes signEOTS fail with
\* the invalid-nonce error and return no signature.
C10_NonceHandling ==
  /\ slot1 # None => C10_Slot(slot1)
  /\ slot2 # None => C10_Slot(slot2)

C10_Witness ==
  /\ slot1 # None
  /\ slot2 # None
  /\ slot1.nonce # Undefined
  /\ slot1.res.ok
  /\ slot2.nonce = Undefined
  /\ Num(NonceUsed(slot2)) >= CurveN
  /\ ~slot2.res.ok

\* two signing calls were made with the same supplied nonce
C11_SameNonce ==
  /\ slot1 # None
  /\ slot2 # None
  /\ slot1.nonce # Undefined
  /\ slot2.nonce = slot1.nonce

\* C11 as stated: with a fixed key and a fixed supplied nonce, the same
\* digest signed twice gives identical (r, s), and two different digests give
\* the same r and different s.
C11_Original ==
  (C11_SameNonce /\ slot1.res.ok /\ slot2.res.ok)
    => /\ slot1.res.value.r = slot2.res.value.r
       /\ slot1.h = slot2.h => slot1.res.value.s = slot2.res.value.s
       /\ slot1.h # slot2.h => slot1.res.value.s # slot2.res.value.s

\* C11, amended: with a fixed key and a fixed supplied nonce, signing the
\* same digest twice gives the same outcome; two returned signatures have
\* the same r, and the same s exactly when the digests are congruent mod n.
C11_SharedR ==
  /\ (C11_SameNonce /\ slot1.h = slot2.h) => slot1.res = slot2.res
  /\ (C11_SameNonce /\ slot1.res.ok /\ slot2.res.ok)
       => /\ slot1.res.value.r = slot2.res.value.r
          /\ (slot1.res.value.s = slot2.res.value.s)
               <=> (Num(slot1.h) % CurveN = Num(slot2.h) % CurveN)

C11_Witness ==
  /\ C11_SameNonce
  /\ slot1.res.ok
  /\ slot2.res.ok
  /\ Num(slot1.h) % CurveN # Num(slot2.h) % CurveN
  /\ slot1.res.value.r = slot2.res.value.r
  /\ slot1.res.value.s # slot2.res.value.s

IdenticalError == "Signatures are identical"

\* C12: extractPrivateKey tests its preconditions in a fixed order with
\* distinct errors: r1 # r2 fails with the nonce-mismatch error, also when
\* s1 = s2; otherwise s1 = s2 fails with the identical-signatures error; in
\* both cases no key is returned and no inverse is computed.
C12_PreconditionOrder ==
  xcall # None =>
    /\ Num(xcall.sig1.r) # Num(xcall.sig2.r)
         => xcall.res = Throw(NonceMismatchError) /\ xcall.inverses = <<>>
    /\ (Num(xcall.sig1.r) = Num(xcall.sig2.r) /\ Num(xcall.sig1.s) = Num(xcall.sig2.s))
         => xcall.res = Throw(IdenticalError) /\ xcall.inverses = <<>>

C12_Witness ==
  /\ xcall # None
  /\ Num(xcall.sig1.r) # Num(xcall.sig2.r)
  /\ Num(xcall.sig1.s) = Num(xcall.sig2.s)
  /\ ~xcall.res.ok
  /\ xcall.res.error = NonceMismatchError

\* extractPrivateKey was called with r1 = r2, s1 and s2 different mod n and
\* r not a multiple of n
C18_Solvable ==
  /\ xcall # None
  /\ Num(xcall.sig1.r) = Num(xcall.sig2.r)
  /\ (Num(xcall.sig1.s) - Num(xcall.sig2.s)) % CurveN # 0
  /\ Num(xcall.sig1.r) % CurveN # 0

\* C18: for inputs (r, s1), (r, s2), h1, h2 with s1, s2 different mod n and
\* r not 0 mod n, extractPrivateKey returns an x with 0 <= x < n that, with
\* k = (h1 - h2) * (s1 - s2)^-1 mod n, satisfies s1*k = h1 + r*x and
\* s2*k = h2 + r*x (mod n).
C18_LinearSystem ==
  C18_Solvable =>
    /\ xcall.res.ok
    /\ LET r == Num(xcall.sig1.r)
           s1 == Num(xcall.sig1.s)
           s2 == Num(xcall.sig2.s)
           h1 == Num(xcall.hash1)
           h2 == Num(xcall.hash2)
           x == Num(xcall.res.value)
           k == CHOOSE v \in 0 .. (CurveN - 1) :
                  (v * (s1 - s2) - (h1 - h2)) % CurveN = 0
       IN /\ x \in 0 .. (CurveN - 1)
          /\ (s1 * k - (h1 + r * x)) % CurveN = 0
          /\ (s2 * k - (h2 + r * x)) % CurveN = 0

C18_Witness ==
  /\ C18_Solvable
  /\ xcall.res.ok
  /\ Num(xcall.hash1) % CurveN # Num(xcall.hash2) % CurveN
  /\ Num(xcall.res.value) \in 1 .. (CurveN - 1)

DegenerateError == "Cannot extract private key: s1 equals s2"

\* extractPrivateKey was called with r1 = r2 and s values that differ as
\* integers and are congruent mod n
C19_Degenerate ==
  /\ xcall # None
  /\ Num(xcall.sig1.r) = Num(xcall.sig2.r)
  /\ Num(xcall.sig1.s) # Num(xcall.sig2.s)
  /\ (Num(xcall.sig1.s) - Num(xcall.sig2.s)) % CurveN = 0

\* C19: with r1 = r2 and s1 # s2 as integers but s1 = s2 mod n,
\* extractPrivateKey fails with the degenerate-signatures error, which is
\* not the identical-signatures error; it inverts nothing and returns no key.
C19_DegenerateRejected ==
  C19_Degenerate =>
    /\ xcall.res = Throw(DegenerateError)
    /\ DegenerateError # IdenticalError
    /\ xcall.inverses = <<>>

C19_Witness ==
  /\ C19_Degenerate
  /\ ~xcall.res.ok
  /\ xcall.res.error = DegenerateError

\* generateEOTSKeyPair has returned a key pair
KeyPairReturned == keyPair # None /\ pc # "keygen"

\* C14: every key pair generateEOTSKeyPair returns has a private key x with
\* 1 <= x < n, and its public key is the compressed encoding of x*G, which
\* is what getPublicKey(privateKey) returns.
C14_KeyPairValid ==
  KeyPairReturned =>
    LET x == Num(keyPair.privateKey)
    IN /\ x \in 1 .. (CurveN - 1)
       /\ Len(keyPair.privateKey) = KeyLen
       /\ keyPair.publicKey = encodePoint(MulG[x], TRUE)
       /\ getPublicKey(keyPair.privateKey) = Return(keyPair.publicKey)

C14_Witness ==
  /\ KeyPairReturned
  /\ pc = "keyed"
  /\ Num(keyPair.privateKey) = CurveN - 1
  /\ Len(keyPair.publicKey) = KeyLen + 1

\* the signing equation for the signature a call returned
C17_Slot(slot) ==
  LET k == Num(NonceUsed(slot))
      h == Num(slot.h)
      x == Num(keyPair.privateKey)
      r == Num(slot.res.value.r)
      s == Num(slot.res.value.s)
      kInv == CHOOSE v \in 1 .. (CurveN - 1) : (k * v) % CurveN = 1
  IN /\ k \in 1 .. (CurveN - 1)
     /\ s = (kInv * (h + r * x)) % CurveN
     /\ (s * k) % CurveN = (h + r * x) % CurveN

\* C17: every signature (r, s) signEOTS returns for a key x, a digest h and
\* a nonce k has s = k^-1 * (h + r*x) mod n, that is s*k = h + r*x (mod n),
\* with h and x the big-endian integers of the input bytes.
C17_SigningEquation ==
  /\ (slot1 # None /\ slot1.res.ok) => C17_Slot(slot1)
  /\ (slot2 # None /\ slot2.res.ok) => C17_Slot(slot2)

C17_Witness ==
  /\ slot1 # None
  /\ slot2 # None
  /\ slot1.res.ok
  /\ slot2.res.ok
  /\ slot1.nonce = Undefined
  /\ slot2.nonce # Undefined
  /\ Num(slot1.h) >= CurveN
  /\ Num(slot2.res.value.r) >= CurveN

\* what a finished modInverse call must have produced
C20_Result ==
  /\ inv.res = modInverse(inv.a, inv.m)
  /\ IF inv.a % inv.m # 0
     THEN /\ inv.res.ok
          /\ inv.res.value \in 0 .. (inv.m - 1)
          /\ (inv.a * inv.res.value) % inv.m = 1
     ELSE inv.res = Throw("Modular inverse does not exist")

\* C20: modInverse(a, n), n prime: for every integer a (negative, in range
\* or >= n) that is not 0 mod n it returns v with 0 <= v < n and
\* a*v mod n = 1; for every a that is 0 mod n it fails with the no-inverse
\* error; and its loop terminates on every input.
C20_Inverse ==
  /\ [](inv.at = "done" => C20_Result)
  /\ <>(inv.at = "done")

C20_Witness ==
  /\ inv.at = "done"
  /\ inv.a < -CurveN
  /\ inv.old_s < 0
  /\ inv.res.ok
  /\ (inv.a * inv.res.value) % CurveN = 1

\* a field holds something that is not a scalar in hex (not exactly 64 hex
\* characters in the program)
Malformed(value) == value # <<>> /\ ~isValidHex(value, KeyLen)

\* the handler that ran last read a malformed value from one of the fields
HandledMalformed(handler, fields) ==
  /\ called # None
  /\ called.handler = handler
  /\ \E field \in fields : Malformed(formData[field])

\* the handler that ran last reported an error and invoked no core function
RejectedByHandler == errors # <<>> /\ called.core = {}

\* the parts of C13, handler by handler
C13_Generate ==
  HandledMalformed("handleGenerateSignature", {"privateKey", "messageHash", "nonce"})
    => RejectedByHandler

C13_Verify ==
  HandledMalformed("handleVerifySignature", {"messageHash"}) => RejectedByHandler

C13_VerifyPublicKey ==
  (/\ called # None
   /\ called.handler = "handleVerifySignature"
   /\ Len(formData.publicKey) = 2 * KeyLen)
    => RejectedByHandler

C13_Extract ==
  HandledMalformed("handleExtractPrivateKey", {"messageHash1", "messageHash2"})
    => RejectedByHandler

\* C13: in Generate Signature, Verify Signature and Extract Private Key a
\* key, digest or nonce field that does not hold exactly 64 hex characters
\* (63, say) gives a validation error and the core function is not called,
\* and Verify Signature rejects a public key of 64 hex characters.
C13_MalformedRejected ==
  /\ C13_Generate
  /\ C13_Verify
  /\ C13_VerifyPublicKey
  /\ C13_Extract

\* C15: after any sequence of edits, random values, key generation,
\* signing, verification and extraction, successful or failed, handleRefresh
\* leaves formData, results and errors equal to their initial values.
C15_RefreshResets ==
  (called # None /\ called.handler = "handleRefresh")
    => /\ formData = InitialFormData
       /\ results = InitialResults
       /\ errors = InitialErrors

C15_Witness ==
  /\ called # None
  /\ called.handler = "handleRefresh"
  /\ \A field \in Fields : formData[field] = <<>>
  /\ results.generatedSignature = None
  /\ results.verificationResult = None
  /\ errors = <<>>

\* handleGenerateSignature has just succeeded
SignatureGenerated ==
  /\ called # None
  /\ called.handler = "handleGenerateSignature"
  /\ errors = <<>>

\* what the form and the results hold when handleGenerateSignature has
\* succeeded
C16_Filled ==
  LET privKey == hexToBytes(formData.privateKey)
      signature == signEOTS(privKey, hexToBytes(formData.messageHash),
                            IF formData.nonce # <<>> THEN hexToBytes(formData.nonce)
                            ELSE Undefined)
  IN /\ signature.ok
     /\ results.generatedSignature = signature.value
     /\ formData.publicKey = bytesToHex(getPublicKey(privKey).value)
     /\ formData.signatureR = bytesToHex(signature.value.r)
     /\ formData.signatureS = bytesToHex(signature.value.s)
     /\ hexToBytes(formData.signatureR) = signature.value.r
     /\ hexToBytes(formData.signatureS) = signature.value.s

\* C16: whenever handleGenerateSignature succeeds, the publicKey, signatureR
\* and signatureS fields are the hex of the public key of the form's private
\* key and of the generated r and s, results.generatedSignature is that
\* signature, and messageHash is unchanged: Verify Signature would read
\* exactly the generated signature.
C16_AutoFill ==
  /\ [](SignatureGenerated => C16_Filled)
  /\ [][SignatureGenerated' => formData'.messageHash = formData.messageHash]_vars

C16_Witness ==
  /\ SignatureGenerated
  /\ formData.nonce = <<>>
  /\ results.generatedSignature # None
  /\ formData.signatureR = bytesToHex(results.generatedSignature.r)
  /\ formData.publicKey # <<>>

----------------------------------------------------------------------------
(* C21 *)

\* generateEOTSKeyPair has returned its pair / has ended (return or throw)
KeyGenReturned == pc = "keyed"

KeyGenEnded == pc \in {"keyed", "failed"}

\* the loop takes another turn only while the value drawn last is >= n, and
\* what is returned is the value drawn last, which is below n
C21_Rejection ==
  /\ [][(pc = "keygen" /\ pc' = "keygen")
          => bytesToNumber(keyPair.privateKey) >= CurveN]_vars
  /\ [][(pc = "keygen" /\ pc' = "keyed")
          => (/\ keyPair'.privateKey = keyPair.privateKey
              /\ bytesToNumber(keyPair.privateKey) < CurveN)]_vars

\* a started call ends, by a return or by the throw of getPublicKeySecp
C21_Ends == (pc = "keygen") ~> KeyGenEnded

\* C21: key generation terminates.  generateEOTSKeyPair redraws only while
\* the drawn integer is >= n; when the random source eventually yields a
\* value below n the call eventually returns; a value drawn >= n is never
\* returned.
C21_Terminates ==
  /\ C21_Rejection
  /\ (pc = "keygen") ~> KeyGenReturned

----------------------------------------------------------------------------
(* C22 *)

FormHandlers ==
  {"handleGenerateSignature", "handleVerifySignature", "handleExtractPrivateKey"}

\* the handler that ran last was a form handler and it reported an error
ErrorReported == called # None /\ called.handler \in FormHandlers /\ errors # <<>>

\* C22: whenever handleGenerateSignature, handleVerifySignature or
\* handleExtractPrivateKey ends by reporting an error (a validation failure or
\* an exception of the core, also one thrown after the core call by the
\* public-key or address derivation), formData and results are what they
\* were before the click and errors holds exactly one message.
C22_StateUnchangedOnError ==
  [][ErrorReported'
       => (formData' = formData /\ results' = results /\ Len(errors') = 1)]_vars

\* the address derivation threw after extractPrivateKey had returned, while
\* the results of an earlier extraction were on the page
C22_Witness ==
  /\ ErrorReported
  /\ called.handler = "handleExtractPrivateKey"
  /\ called.core = {"extractPrivateKey", "deriveTaprootAddress"}
  /\ results.extractedPrivateKey # <<>>

\* getPublicKey threw after signEOTS had returned
C22_WitnessSigning ==
  /\ ErrorReported
  /\ called.handler = "handleGenerateSignature"
  /\ called.core = {"signEOTS", "getPublicKey"}
  /\ results # InitialResults

----------------------------------------------------------------------------
(* C23 *)

\* the call under way with its two signatures and digests exchanged
ExtractSwapped ==
  extractPrivateKey(xcall.sig2, xcall.sig1, xcall.hash2, xcall.hash1)

\* C23: extraction is symmetric in the order of the two signatures.  For all
\* inputs extractPrivateKey(sig1, sig2, h1, h2) and
\* extractPrivateKey(sig2, sig1, h2, h1) both fail with the same error or
\* both return the same key.
C23_Symmetric == xcall # None => ExtractSwapped = xcall.res

\* a key was returned for two signatures that differ in s and two digests
\* that differ, one of them not below n
C23_Witness ==
  /\ xcall # None
  /\ xcall.res.ok
  /\ xcall.hash1 # xcall.hash2
  /\ bytesToNumber(xcall.hash2) >= CurveN
  /\ bytesToNumber(xcall.res.value) > 1

\* an error was returned for signatures that are not interchangeable
C23_WitnessError ==
  /\ xcall # None
  /\ ~xcall.res.ok
  /\ xcall.sig1 # xcall.sig2
  /\ xcall.sig1.r = xcall.sig2.r

----------------------------------------------------------------------------
(* C24 *)

\* the first signing call was given a nonce k in [1, n-1]
C24_NonceGiven ==
  /\ slot1 # None
  /\ slot1.nonce # Undefined
  /\ Num(slot1.nonce) \in 1 .. (CurveN - 1)

\* the second signing call was made on the same digest with the nonce n - k
C24_Negated ==
  /\ C24_NonceGiven
  /\ slot2 # None
  /\ slot2.h = slot1.h
  /\ slot2.nonce # Undefined
  /\ Num(slot2.nonce) = CurveN - Num(slot1.nonce)

\* the outcomes a and b of signing with k and with n - k: the same r and
\* s values that sum to n, or the same error
C24_Mirror(a, b) ==
  IF a.ok
  THEN /\ b.ok
       /\ b.value.r = a.value.r
       /\ Num(a.value.s) + Num(b.value.s) = CurveN
  ELSE b = a

\* C24: nonce negation symmetry.  For every private key x, digest h and
\* nonce k in [1, n-1], signEOTS(x, h, k) and signEOTS(x, h, n-k) return the
\* same r and s values that sum to n (or fail alike, when s is zero): equal
\* r does not imply equal nonces.
C24_NonceNegation ==
  /\ C24_Negated => C24_Mirror(slot1.res, slot2.res)
  /\ C24_NonceGiven
       => C24_Mirror(slot1.res,
                     signEOTS(keyPair.privateKey, slot1.h,
                              numberToBytes(CurveN - Num(slot1.nonce), KeyLen)))

\* two signatures with equal r >= n made with different nonces
C24_Witness ==
  /\ C24_Negated
  /\ slot2.res.ok
  /\ slot1.nonce # slot2.nonce
  /\ slot1.res.value.r = slot2.res.value.r
  /\ Num(slot1.res.value.r) >= CurveN
  /\ slot1.res.value.s # slot2.res.value.s

\* the signing with k failed on s = 0
C24_WitnessZero ==
  /\ C24_NonceGiven
  /\ ~slot1.res.ok
  /\ slot1.res.error = "Invalid signature: s is zero"

----------------------------------------------------------------------------
(* C25 *)

\* C25: ScalarCodec round trip and width.  For every integer v with
\* 0 <= v < 2^(8 L), numberToBytes(v, L) is exactly L bytes, big-endian, and
\* bytesToNumber(numberToBytes(v, L)) = v; for every byte sequence b of
\* length L, numberToBytes(bytesToNumber(b), L) = b, leading zeros kept.
C25_RoundTrip ==
  codec # None =>
    /\ Len(codec.bytes) = codec.length
    /\ \A i \in 1 .. codec.length : codec.bytes[i] \in Byte
    /\ codec.bytes[codec.length] = codec.num % ByteBase
    /\ codec.num \in 0 .. (WidthLimit(codec.length) - 1)
    /\ (codec.at = "done" /\ codec.from = "number") => codec.back = codec.num
    /\ (codec.at = "done" /\ codec.from = "bytes") => codec.back = codec.bytes

\* a two-byte string with a leading zero byte came back from its number
C25_Witness ==
  /\ codec # None
  /\ codec.at = "done"
  /\ codec.from = "bytes"
  /\ codec.length = 2
  /\ codec.bytes[1] = 0
  /\ codec.bytes[2] # 0
  /\ codec.back = codec.bytes

\* a number with fewer hex digits than the width came back from its bytes
C25_WitnessNumber ==
  /\ codec # None
  /\ codec.at = "done"
  /\ codec.from = "number"
  /\ codec.length = 2
  /\ codec.num \in 1 .. (HexBase - 1)
  /\ codec.back = codec.num

====
